---- MODULE Spec2Model ----
(***************************************************************************)
(* LRU-K replacer of PepperDB (src/buffer_pool/lru_k.rs).                  *)
(*                                                                         *)
(* The replacer state is the triple (k, frame, timestamp) of               *)
(* LRUKReplacer.  frame is the HashMap<usize, LRUKNode>, modelled as a     *)
(* function whose domain is the set of tracked frame ids.  A VecDeque      *)
(* history is a sequence whose index 1 is the front (most recent entry)    *)
(* and whose last index is the back (least recent entry).                  *)
(*                                                                         *)
(* lastOp, ret, prev, accesses and ignored are observation variables: the  *)
(* call that was made last, what it returned, the state it was made in,    *)
(* the number of record_access calls made so far, and the untracked frame  *)
(* ids that set_evictable(id, false) was called on since they were last    *)
(* tracked.                                                                *)
(***************************************************************************)
EXTENDS Integers, Sequences, FiniteSets, TLC

VARIABLES k, frame, timestamp, lastOp, ret, prev, accesses, ignored

\* Bookkeeping of the checks that follow a call over more than one step;
\* each is described where it is updated.
VARIABLES log, run, gone, handed, pc

aux == <<log, run, gone, handed, pc>>

vars == <<k, frame, timestamp, lastOp, ret, prev, accesses, ignored, aux>>

\* ---- bounds ----
MaxFrame == 3
MaxK == 2
MaxClock == 4

FrameIds == 1..MaxFrame

AccessType == {"Unknown", "Lookup", "Scan", "Index"}

\* ---- VecDeque ----
push_front(h, t) == <<t>> \o h

pop_back(h) == IF h = <<>> THEN h ELSE SubSeq(h, 1, Len(h) - 1)

back(h) == IF h = <<>> THEN 0 ELSE h[Len(h)]

\* ---- LRUKNode ----
new_with_record(kk, ts) ==
    [history |-> <<ts>>, k |-> kk, evictable |-> TRUE]

\* k_distance with the components of the key in the other order.
k_distance_swapped(node) == <<back(node.history), Len(node.history)>>

\* k_distance reading the front (most recent) entry of the history.
k_distance_front(node) ==
    <<Len(node.history),
      IF node.history = <<>> THEN 0 ELSE node.history[1]>>

k_distance(node) == <<Len(node.history), back(node.history)>>

\* record_access that never drops the back entry.
LRUKNode_record_access_nopop(node, ts) ==
    [node EXCEPT !.history = push_front(node.history, ts)]

\* record_access that drops the front (most recent) entry of a full history.
LRUKNode_record_access_popfront(node, ts) ==
    LET h == IF Len(node.history) = node.k
             THEN Tail(node.history)
             ELSE node.history
    IN  [node EXCEPT !.history = push_front(h, ts)]

\* record_access that also makes the frame evictable.
LRUKNode_record_access_unpin(node, ts) ==
    LET h == IF Len(node.history) = node.k
             THEN pop_back(node.history)
             ELSE node.history
    IN  [node EXCEPT !.history = push_front(h, ts), !.evictable = TRUE]

LRUKNode_record_access(node, ts) ==
    LET h == IF Len(node.history) = node.k
             THEN pop_back(node.history)
             ELSE node.history
    IN  [node EXCEPT !.history = push_front(h, ts)]

\* ---- HashMap ----
insert(fr, id, node) ==
    [f \in DOMAIN fr \cup {id} |-> IF f = id THEN node ELSE fr[f]]

map_remove(fr, id) == [f \in DOMAIN fr \ {id} |-> fr[f]]

\* ---- results ----
Unit == [ok |-> TRUE, val |-> 0]
Ok(v) == [ok |-> TRUE, val |-> v]
Err == [ok |-> FALSE, val |-> 0]

Call(name, id, ev) == [name |-> name, frame_id |-> id, evictable |-> ev]

TypedCall(id, kind) ==
    [name |-> "record_access_of_type", frame_id |-> id,
     evictable |-> FALSE, kind |-> kind]

Snapshot ==
    [k |-> k, frame |-> frame, timestamp |-> timestamp, ignored |-> ignored,
     log |-> log, gone |-> gone, handed |-> handed]

\* ---- LRUKReplacer ----
\* Ordering of the (usize, usize) keys of min_by_key.
tuple_lt(a, b) == a[1] < b[1] \/ (a[1] = b[1] /\ a[2] < b[2])

\* evict without its filter: every tracked frame is a candidate.
evict_filter_all(fr) == DOMAIN fr

\* .iter().filter(|(_, node)| node.evictable) of evict
evict_filter(fr) == {f \in DOMAIN fr : fr[f].evictable}

\* max_by_key in the place of min_by_key.
max_by_key(fr, S) ==
    {f \in S : \A g \in S : ~tuple_lt(k_distance(fr[f]), k_distance(fr[g]))}

\* .min_by_key(|(_, v)| v.k_distance()): the elements of S no other element
\* of S has a smaller key than.  The HashMap's iteration order picks among
\* them when there are several.
min_by_key(fr, S) ==
    {f \in S : \A g \in S : ~tuple_lt(k_distance(fr[g]), k_distance(fr[f]))}

\* evict that picks and removes its victim among all tracked frames and
\* looks at the evictable flag only afterwards.
evict_remove_first ==
    /\ LET cand == min_by_key(frame, DOMAIN frame)
       IN  IF cand = {}
           THEN /\ ret' = Err
                /\ frame' = frame
           ELSE \E i \in cand :
                   /\ frame' = map_remove(frame, i)
                   /\ ret' = IF frame[i].evictable THEN Ok(i) ELSE Err
    /\ lastOp' = Call("evict", 0, FALSE)
    /\ prev' = Snapshot
    /\ UNCHANGED <<k, timestamp, accesses, ignored>>

\* evict that returns its victim and leaves it in the map.
evict_no_remove ==
    /\ LET cand == min_by_key(frame, evict_filter(frame))
       IN  IF cand = {}
           THEN ret' = Err
           ELSE \E i \in cand : ret' = Ok(i)
    /\ frame' = frame
    /\ lastOp' = Call("evict", 0, FALSE)
    /\ prev' = Snapshot
    /\ UNCHANGED <<k, timestamp, accesses, ignored>>

evict ==
    /\ LET cand == min_by_key(frame, evict_filter(frame))
       IN  IF cand = {}
           THEN /\ ret' = Err
                /\ frame' = frame
           ELSE \E i \in cand :
                   /\ frame' = map_remove(frame, i)
                   /\ ret' = Ok(i)
    /\ lastOp' = Call("evict", 0, FALSE)
    /\ prev' = Snapshot
    /\ UNCHANGED <<k, timestamp, accesses, ignored>>

\* record_access_of_type that advances the timestamp only when it creates
\* the frame.
record_access_of_type_stale(frame_id, kind) ==
    /\ IF ~(frame_id \in DOMAIN frame)
       THEN /\ timestamp' = timestamp + 1
            /\ frame' = insert(frame, frame_id,
                               new_with_record(k, timestamp'))
       ELSE /\ timestamp' = timestamp
            /\ frame' = [frame EXCEPT
                           ![frame_id] = LRUKNode_record_access(@, timestamp)]
    /\ ret' = Unit
    /\ prev' = Snapshot
    /\ accesses' = accesses + 1
    /\ ignored' = ignored \ {frame_id}
    /\ UNCHANGED k

\* record_access_of_type that advances the timestamp only for a frame that
\* is already tracked.
record_access_of_type_reuse(frame_id, kind) ==
    /\ IF ~(frame_id \in DOMAIN frame)
       THEN /\ timestamp' = timestamp
            /\ frame' = insert(frame, frame_id,
                               new_with_record(k, timestamp))
       ELSE /\ timestamp' = timestamp + 1
            /\ frame' = [frame EXCEPT
                           ![frame_id] = LRUKNode_record_access(@, timestamp')]
    /\ ret' = Unit
    /\ prev' = Snapshot
    /\ accesses' = accesses + 1
    /\ ignored' = ignored \ {frame_id}
    /\ UNCHANGED k

\* record_access_of_type that leaves the history of a tracked frame alone
\* when the access is a scan.
record_access_of_type_scan(frame_id, kind) ==
    /\ timestamp' = timestamp + 1
    /\ IF ~(frame_id \in DOMAIN frame)
       THEN frame' = insert(frame, frame_id, new_with_record(k, timestamp'))
       ELSE IF kind = "Scan"
            THEN frame' = frame
            ELSE frame' = [frame EXCEPT
                        ![frame_id] = LRUKNode_record_access(@, timestamp')]
    /\ ret' = Unit
    /\ prev' = Snapshot
    /\ accesses' = accesses + 1
    /\ ignored' = ignored \ {frame_id}
    /\ UNCHANGED k

record_access_of_type(frame_id, kind) ==
    /\ timestamp' = timestamp + 1
    /\ IF ~(frame_id \in DOMAIN frame)
       THEN frame' = insert(frame, frame_id, new_with_record(k, timestamp'))
       ELSE frame' = [frame EXCEPT
                        ![frame_id] = LRUKNode_record_access(@, timestamp')]
    /\ ret' = Unit
    /\ prev' = Snapshot
    /\ accesses' = accesses + 1
    /\ ignored' = ignored \ {frame_id}
    /\ UNCHANGED k

\* A call of the public record_access_of_type; the call observed keeps
\* the access type it was made with.
record_access_typed(frame_id, kind) ==
    /\ record_access_of_type(frame_id, kind)
    /\ lastOp' = TypedCall(frame_id, kind)

record_access(frame_id) ==
    /\ record_access_of_type(frame_id, "Unknown")
    /\ lastOp' = Call("record_access", frame_id, FALSE)

\* set_evictable that starts tracking an untracked frame, with no history.
set_evictable_or_insert(frame_id, evictable) ==
    /\ IF frame_id \in DOMAIN frame
       THEN frame' = [frame EXCEPT ![frame_id].evictable = evictable]
       ELSE frame' = insert(frame, frame_id,
                [history |-> <<>>, k |-> k, evictable |-> evictable])
    /\ ret' = Unit
    /\ lastOp' = Call("set_evictable", frame_id, evictable)
    /\ prev' = Snapshot
    /\ ignored' = IF ~(frame_id \in DOMAIN frame) /\ ~evictable
                  THEN ignored \cup {frame_id}
                  ELSE ignored
    /\ UNCHANGED <<k, timestamp, accesses>>

set_evictable(frame_id, evictable) ==
    /\ IF frame_id \in DOMAIN frame
       THEN frame' = [frame EXCEPT ![frame_id].evictable = evictable]
       ELSE frame' = frame
    /\ ret' = Unit
    /\ lastOp' = Call("set_evictable", frame_id, evictable)
    /\ prev' = Snapshot
    /\ ignored' = IF ~(frame_id \in DOMAIN frame) /\ ~evictable
                  THEN ignored \cup {frame_id}
                  ELSE ignored
    /\ UNCHANGED <<k, timestamp, accesses>>

\* remove that drops the frame only when it is evictable.
remove_if_evictable(frame_id) ==
    /\ IF frame_id \in DOMAIN frame /\ frame[frame_id].evictable
       THEN frame' = map_remove(frame, frame_id)
       ELSE frame' = frame
    /\ ret' = Unit
    /\ lastOp' = Call("remove", frame_id, FALSE)
    /\ prev' = Snapshot
    /\ UNCHANGED <<k, timestamp, accesses, ignored>>

\* remove that empties the history of the frame and keeps its entry.
remove_clear_history(frame_id) ==
    /\ IF frame_id \in DOMAIN frame
       THEN frame' = [frame EXCEPT ![frame_id].history = <<>>]
       ELSE frame' = frame
    /\ ret' = Unit
    /\ lastOp' = Call("remove", frame_id, FALSE)
    /\ prev' = Snapshot
    /\ UNCHANGED <<k, timestamp, accesses, ignored>>

remove(frame_id) ==
    /\ frame' = map_remove(frame, frame_id)
    /\ ret' = Unit
    /\ lastOp' = Call("remove", frame_id, FALSE)
    /\ prev' = Snapshot
    /\ UNCHANGED <<k, timestamp, accesses, ignored>>

\* .iter().filter(|(_, node)| node.evictable).count() over the entries S
RECURSIVE count(_, _)
count(fr, S) ==
    IF S = {} THEN 0
    ELSE LET f == CHOOSE x \in S : TRUE
         IN  (IF fr[f].evictable THEN 1 ELSE 0) + count(fr, S \ {f})

\* size without its filter: the number of tracked frames.
size_of_tracked(fr) == Cardinality(DOMAIN fr)

size_of(fr) == count(fr, DOMAIN fr)

size ==
    /\ ret' = Ok(size_of(frame))
    /\ lastOp' = Call("size", 0, FALSE)
    /\ prev' = Snapshot
    /\ UNCHANGED <<k, frame, timestamp, accesses, ignored>>

new(kk) ==
    /\ k = kk
    /\ frame = <<>>
    /\ timestamp = 0

Callers == {1, 2}

EmptyRun == [n |-> 0, pinned |-> {}, rets |-> <<>>]

\* Nothing has been observed yet.
Unobserved ==
    /\ ignored = {}
    /\ log = <<>>
    /\ run = EmptyRun
    /\ gone = <<>>
    /\ handed = [c \in Callers |-> {}]
    /\ lastOp = Call("new", 0, FALSE)
    /\ ret = Unit
    /\ prev = Snapshot
    /\ accesses = 0

Init ==
    /\ \E kk \in 1..MaxK : new(kk)
    /\ Unobserved
    /\ pc = 0

\* Any caller may make any call; the clock is explored up to MaxClock.
Next ==
    \/ evict /\ UNCHANGED aux
    \/ \E frame_id \in FrameIds, kind \in AccessType :
          /\ timestamp < MaxClock
          /\ record_access_typed(frame_id, kind)
          /\ UNCHANGED aux
    \/ \E frame_id \in FrameIds :
          /\ timestamp < MaxClock
          /\ record_access(frame_id)
          /\ UNCHANGED aux
    \/ \E frame_id \in FrameIds, evictable \in BOOLEAN :
          set_evictable(frame_id, evictable) /\ UNCHANGED aux
    \/ \E frame_id \in FrameIds : remove(frame_id) /\ UNCHANGED aux
    \/ size /\ UNCHANGED aux

Spec == Init /\ [][Next]_vars

\* ---------------------------------------------------------------------
\* Properties.  They are stated over the call made last (lastOp), its
\* result (ret) and the state it was made in (prev), in the words of the
\* specification: tracked frames, evictable flag, historyLength and
\* oldestRetainedTimestamp.
\* ---------------------------------------------------------------------
Tracked(fr) == DOMAIN fr

Evictables(fr) == {f \in DOMAIN fr : fr[f].evictable}

HistoryLength(fr, f) == Len(fr[f].history)

OldestRetained(fr, f) == fr[f].history[Len(fr[f].history)]

MostRecent(fr, f) == fr[f].history[1]

\* (historyLength, oldestRetainedTimestamp) of f is lexicographically at
\* most that of g.
RankingKeyLeq(fr, f, g) ==
    \/ HistoryLength(fr, f) < HistoryLength(fr, g)
    \/ /\ HistoryLength(fr, f) = HistoryLength(fr, g)
       /\ OldestRetained(fr, f) <= OldestRetained(fr, g)

RecordOps == {"record_access", "record_access_of_type"}

EvictCalled == lastOp.name = "evict"

Evicted == EvictCalled /\ ret.ok

EvictFailed == EvictCalled /\ ~ret.ok

\* C1: when some tracked frame is evictable, evict() returns a tracked,
\* evictable frame whose ranking key (historyLength,
\* oldestRetainedTimestamp) is the lexicographic minimum over all tracked
\* evictable frames.
C1_EvictReturnsMinimumKey ==
    (EvictCalled /\ Evictables(prev.frame) # {}) =>
        /\ ret.ok
        /\ ret.val \in Evictables(prev.frame)
        /\ \A g \in Evictables(prev.frame) :
              RankingKeyLeq(prev.frame, ret.val, g)

\* evict() chose among at least three evictable frames, one with the
\* victim's history length and one with a longer history.
C1_Witness ==
    /\ Evicted
    /\ \E g, h \in Evictables(prev.frame) \ {ret.val} :
          /\ g # h
          /\ HistoryLength(prev.frame, g) = HistoryLength(prev.frame, ret.val)
          /\ HistoryLength(prev.frame, h) > HistoryLength(prev.frame, ret.val)

\* C2: evict() never returns a frame whose evictable flag is false at the
\* moment of the call, and never an untracked frame.
C2_EvictNeverReturnsNonEvictable ==
    Evicted =>
        /\ ret.val \in Tracked(prev.frame)
        /\ prev.frame[ret.val].evictable

\* evict() succeeded although a non-evictable tracked frame had a strictly
\* smaller ranking key than the victim.
C2_Witness ==
    /\ Evicted
    /\ \E g \in Tracked(prev.frame) :
          /\ ~prev.frame[g].evictable
          /\ ~RankingKeyLeq(prev.frame, ret.val, g)

\* C3: a failing evict() leaves the whole replacer state unchanged: the
\* tracked frames, their histories and flags, the clock and k.
C3_FailedEvictChangesNothing ==
    EvictFailed =>
        /\ frame = prev.frame
        /\ timestamp = prev.timestamp
        /\ k = prev.k
        /\ Cardinality(Evictables(frame)) =
              Cardinality(Evictables(prev.frame))

\* evict() failed on a replacer that tracks frames, all of them
\* non-evictable.
C3_Witness ==
    /\ EvictFailed
    /\ Cardinality(Tracked(prev.frame)) >= 2
    /\ Evictables(prev.frame) = {}

\* C4: while an evictable tracked frame with historyLength < k exists,
\* evict() never returns a frame with historyLength = k.
C4_PartialHistoryBeforeFull ==
    (/\ Evicted
     /\ \E g \in Evictables(prev.frame) :
           HistoryLength(prev.frame, g) < prev.k) =>
        HistoryLength(prev.frame, ret.val) # prev.k

\* evict() returned a frame with a partial history although an evictable
\* frame with a full history had an older oldestRetainedTimestamp.
C4_Witness ==
    /\ Evicted
    /\ HistoryLength(prev.frame, ret.val) < prev.k
    /\ \E g \in Evictables(prev.frame) :
          /\ HistoryLength(prev.frame, g) = prev.k
          /\ OldestRetained(prev.frame, g) <
                OldestRetained(prev.frame, ret.val)

\* C5: of two evictable tracked frames with equal historyLength, evict()
\* never returns the one with the larger oldestRetainedTimestamp.
C5_EqualLengthOldestFirst ==
    Evicted =>
        \A g \in Evictables(prev.frame) \ {ret.val} :
            HistoryLength(prev.frame, g) =
                HistoryLength(prev.frame, ret.val) =>
            ~(OldestRetained(prev.frame, ret.val) >
                OldestRetained(prev.frame, g))

\* evict() chose between two evictable frames of equal history length of
\* at least 2, and the victim is the one that was accessed most recently.
C5_Witness ==
    /\ Evicted
    /\ \E g \in Evictables(prev.frame) \ {ret.val} :
          /\ HistoryLength(prev.frame, g) =
                HistoryLength(prev.frame, ret.val)
          /\ HistoryLength(prev.frame, g) >= 2
          /\ MostRecent(prev.frame, g) < MostRecent(prev.frame, ret.val)

\* C6: after evict() succeeds with frame f, f is no longer tracked, size()
\* is one less than before, and every other tracked frame's history and
\* flag and the clock are unchanged.
C6_EvictRemovesOnlyVictim ==
    Evicted =>
        /\ ret.val \notin Tracked(frame)
        /\ Tracked(frame) = Tracked(prev.frame) \ {ret.val}
        /\ \A g \in Tracked(frame) : frame[g] = prev.frame[g]
        /\ timestamp = prev.timestamp
        /\ Cardinality(Evictables(frame)) =
              Cardinality(Evictables(prev.frame)) - 1

\* evict() succeeded and left behind an evictable and a non-evictable
\* frame.
C6_Witness ==
    /\ Evicted
    /\ Evictables(frame) # {}
    /\ Tracked(frame) \ Evictables(frame) # {}

\* C7: size() is the number of tracked frames whose evictable flag is
\* true, in every state, and a size() call changes no state.
C7_SizeCountsEvictableTracked ==
    /\ size_of(frame) = Cardinality(Evictables(frame))
    /\ lastOp.name = "size" =>
          /\ ret = Ok(Cardinality(Evictables(prev.frame)))
          /\ frame = prev.frame
          /\ timestamp = prev.timestamp
          /\ k = prev.k

\* size() was called with an evictable, a non-evictable and an untracked
\* frame.
C7_Witness ==
    /\ lastOp.name = "size"
    /\ ret.val >= 1
    /\ Tracked(prev.frame) \ Evictables(prev.frame) # {}
    /\ FrameIds \ Tracked(prev.frame) # {}

\* C8: the clock starts at 0 and equals the number of recordAccess calls
\* made so far: each recordAccess adds exactly 1, every other operation
\* leaves it unchanged.
C8_ClockCountsAccesses ==
    /\ timestamp = accesses
    /\ lastOp.name = "new" => timestamp = 0
    /\ lastOp.name \in RecordOps => timestamp = prev.timestamp + 1
    /\ lastOp.name \in {"evict", "set_evictable", "remove", "size"} =>
          timestamp = prev.timestamp

\* recordAccess on an already tracked frame, as the third access or later.
C8_Witness ==
    /\ lastOp.name \in RecordOps
    /\ lastOp.frame_id \in Tracked(prev.frame)
    /\ timestamp >= 3

\* C9: with k >= 1 every tracked frame's history satisfies
\* 0 < len(history) <= k.
C9_HistoryLengthBounded ==
    k >= 1 =>
        \A f \in Tracked(frame) :
            /\ 0 < Len(frame[f].history)
            /\ Len(frame[f].history) <= k

\* recordAccess on a frame whose history already held k >= 2 entries.
C9_Witness ==
    /\ lastOp.name \in RecordOps
    /\ k >= 2
    /\ lastOp.frame_id \in Tracked(prev.frame)
    /\ HistoryLength(prev.frame, lastOp.frame_id) = k

\* C10: setEvictable(f, b) on a tracked frame changes only f's flag, to b;
\* on an untracked frame it changes nothing and is not remembered: the
\* next first recordAccess(f) creates f with evictable = true.
C10_SetEvictableEffect ==
    /\ lastOp.name = "set_evictable" =>
          /\ timestamp = prev.timestamp
          /\ k = prev.k
          /\ Tracked(frame) = Tracked(prev.frame)
          /\ \A g \in Tracked(frame) :
                IF g = lastOp.frame_id
                THEN frame[g] =
                        [prev.frame[g] EXCEPT !.evictable = lastOp.evictable]
                ELSE frame[g] = prev.frame[g]
    /\ \A f \in prev.ignored :
          (lastOp.name \in RecordOps /\ lastOp.frame_id = f) =>
              /\ f \in Tracked(frame)
              /\ frame[f].evictable
              /\ frame[f].history = <<timestamp>>

\* recordAccess(f) created f after setEvictable(f, false) had been called
\* on the untracked f.
C10_Witness ==
    /\ lastOp.name \in RecordOps
    /\ lastOp.frame_id \in prev.ignored
    /\ lastOp.frame_id \notin Tracked(prev.frame)
    /\ Cardinality(Tracked(prev.frame)) >= 1

\* C11: remove(f) stops tracking f whether or not it is evictable, never
\* fails, and changes nothing else; on an untracked f it changes no state.
C11_RemoveEffect ==
    lastOp.name = "remove" =>
        /\ ret = Unit
        /\ Tracked(frame) = Tracked(prev.frame) \ {lastOp.frame_id}
        /\ \A g \in Tracked(frame) : frame[g] = prev.frame[g]
        /\ timestamp = prev.timestamp
        /\ k = prev.k
        /\ lastOp.frame_id \notin Tracked(prev.frame) => frame = prev.frame

\* remove(f) dropped a non-evictable frame and left another frame tracked.
C11_Witness ==
    /\ lastOp.name = "remove"
    /\ lastOp.frame_id \in Tracked(prev.frame)
    /\ ~prev.frame[lastOp.frame_id].evictable
    /\ Tracked(frame) # {}

\* C13: the access kind does not influence behaviour.  Every recordAccess
\* step, whatever kind it was made with, is also the step of
\* recordAccessTyped with each of the four kinds, and an evict step has one
\* possible victim; every other operation is a function of the state and
\* its arguments, so two replacers fed the same calls with different kinds
\* stay in the same state and return the same evict() and size() results.
C13_AccessKindIrrelevant ==
    [][/\ lastOp'.name \in RecordOps =>
             \A kind \in AccessType :
                 record_access_of_type(lastOp'.frame_id, kind)
       /\ lastOp'.name = "evict" =>
             Cardinality(min_by_key(frame, evict_filter(frame))) <= 1
       /\ lastOp'.name = "size" => ret' = Ok(size_of(frame))]_vars

\* recordAccessTyped with kind Scan on a tracked frame whose history is
\* full.
C13_Witness ==
    /\ lastOp.name = "record_access_of_type"
    /\ lastOp.kind = "Scan"
    /\ lastOp.frame_id \in Tracked(prev.frame)
    /\ HistoryLength(prev.frame, lastOp.frame_id) = prev.k
    /\ Cardinality(Tracked(frame)) >= 2

\* C15: recordAccess on a tracked frame with k entries removes the back
\* entry and puts the new clock value at the front, the other k-1 entries
\* keep their order and the length stays k; with fewer than k entries it
\* puts the new clock value at the front and drops nothing.
C15_RecordAccessShiftsHistory ==
    (lastOp.name \in RecordOps /\ lastOp.frame_id \in Tracked(prev.frame)) =>
        LET old == prev.frame[lastOp.frame_id].history
            now == frame[lastOp.frame_id].history
            kept == IF Len(old) = prev.k THEN prev.k - 1 ELSE Len(old)
        IN  /\ Len(now) = kept + 1
            /\ now[1] = timestamp
            /\ \A i \in 1..kept : now[i + 1] = old[i]
            /\ Len(old) = prev.k => Len(now) = prev.k

\* recordAccess on a frame with a full history of at least two entries,
\* made by the untyped call.
C15_Witness ==
    /\ lastOp.name = "record_access"
    /\ lastOp.frame_id \in Tracked(prev.frame)
    /\ prev.k >= 2
    /\ HistoryLength(prev.frame, lastOp.frame_id) = prev.k
    /\ frame[lastOp.frame_id].history[prev.k] >
          OldestRetained(prev.frame, lastOp.frame_id)

\* C18: each clock value is in the history of at most one tracked frame,
\* at most once; every history is strictly decreasing from front to back
\* with entries between 1 and the clock; no two tracked frames have the
\* same ranking key and evict() has one possible victim.
C18_TimestampsUnique ==
    /\ \A f \in Tracked(frame) :
          LET h == frame[f].history
          IN  /\ \A i \in 1..Len(h) : 1 <= h[i] /\ h[i] <= timestamp
              /\ \A i \in 1..(Len(h) - 1) : h[i] > h[i + 1]
    /\ \A f, g \in Tracked(frame) :
          f # g =>
            /\ \A i \in 1..Len(frame[f].history) :
               \A j \in 1..Len(frame[g].history) :
                  frame[f].history[i] # frame[g].history[j]
            /\ <<HistoryLength(frame, f), OldestRetained(frame, f)>> #
                  <<HistoryLength(frame, g), OldestRetained(frame, g)>>
    /\ Cardinality(min_by_key(frame, evict_filter(frame))) <= 1

\* Three evictable frames are tracked, two of them with histories of the
\* same length, after some clock value was dropped from every history.
C18_Witness ==
    /\ Cardinality(Evictables(frame)) >= 3
    /\ \E f, g \in Tracked(frame) :
          f # g /\ HistoryLength(frame, f) = HistoryLength(frame, g)
    /\ \E t \in 1..timestamp :
          \A f \in Tracked(frame) :
             \A i \in 1..Len(frame[f].history) : frame[f].history[i] # t

\* C20: recordAccess(f) on a tracked f leaves f's evictable flag (and so
\* size()) unchanged, and recordAccess on any frame leaves every other
\* tracked frame and the set of other tracked frames unchanged.
C20_RecordAccessKeepsFlag ==
    lastOp.name \in RecordOps =>
        /\ Tracked(frame) = Tracked(prev.frame) \cup {lastOp.frame_id}
        /\ \A g \in Tracked(prev.frame) \ {lastOp.frame_id} :
              frame[g] = prev.frame[g]
        /\ lastOp.frame_id \in Tracked(prev.frame) =>
              /\ frame[lastOp.frame_id].evictable =
                    prev.frame[lastOp.frame_id].evictable
              /\ Cardinality(Evictables(frame)) =
                    Cardinality(Evictables(prev.frame))

\* recordAccess on a non-evictable frame while another frame is tracked.
C20_Witness ==
    /\ lastOp.name \in RecordOps
    /\ lastOp.frame_id \in Tracked(prev.frame)
    /\ ~prev.frame[lastOp.frame_id].evictable
    /\ Tracked(prev.frame) \ {lastOp.frame_id} # {}

\* ---------------------------------------------------------------------
\* Reference log.  log[f] is every access of the tracked frame f, most
\* recent first, since f last became tracked.
\* ---------------------------------------------------------------------
Logged ==
    log' = [f \in DOMAIN frame' |->
              IF lastOp'.name \in RecordOps /\ lastOp'.frame_id = f
              THEN <<timestamp'>> \o (IF f \in DOMAIN frame
                                      THEN log[f] ELSE <<>>)
              ELSE log[f]]

LogObserved == Logged /\ UNCHANGED <<run, gone, handed, pc>>

NextLog ==
    \/ evict /\ LogObserved
    \/ \E frame_id \in FrameIds, kind \in AccessType :
          /\ timestamp < MaxClock
          /\ record_access_typed(frame_id, kind)
          /\ LogObserved
    \/ \E frame_id \in FrameIds :
          /\ timestamp < MaxClock
          /\ record_access(frame_id)
          /\ LogObserved
    \/ \E frame_id \in FrameIds, evictable \in BOOLEAN :
          set_evictable(frame_id, evictable) /\ LogObserved
    \/ \E frame_id \in FrameIds : remove(frame_id) /\ LogObserved
    \/ size /\ LogObserved

SpecLog == Init /\ [][NextLog]_vars

MostRecentOf(h, n) == SubSeq(h, 1, IF n < Len(h) THEN n ELSE Len(h))

\* C16: a tracked frame's history is the min(k, n) most recent of its n
\* logged accesses, most recent first; with a full history
\* oldestRetainedTimestamp is the k-th most recent access, with a partial
\* one the first access since the frame became tracked; and among
\* evictable frames that all have full histories evict() returns the one
\* whose k-th most recent access is the oldest.
C16_HistoryIsLastKAccesses ==
    /\ \A f \in Tracked(frame) :
          /\ f \in DOMAIN log
          /\ frame[f].history = MostRecentOf(log[f], k)
          /\ HistoryLength(frame, f) = k =>
                OldestRetained(frame, f) = log[f][k]
          /\ HistoryLength(frame, f) < k =>
                OldestRetained(frame, f) = log[f][Len(log[f])]
    /\ (/\ Evicted
        /\ \A g \in Evictables(prev.frame) :
              HistoryLength(prev.frame, g) = prev.k) =>
          \A g \in Evictables(prev.frame) :
              prev.log[ret.val][prev.k] <= prev.log[g][prev.k]

\* evict() chose between frames with full histories, and the frame it
\* kept has more than k logged accesses, the first of them older than
\* every access of the victim.
C16_Witness ==
    /\ Evicted
    /\ \A g \in Evictables(prev.frame) :
          HistoryLength(prev.frame, g) = prev.k
    /\ \E g \in Evictables(prev.frame) \ {ret.val} :
          /\ Len(prev.log[g]) > prev.k
          /\ prev.log[g][Len(prev.log[g])] <
                prev.log[ret.val][Len(prev.log[ret.val])]

\* ---------------------------------------------------------------------
\* Runs of evict().  While the calls made last are evict() calls with no
\* other call in between, run holds size() and the non-evictable tracked
\* frames of the state the first of them was made in, and the result of
\* each call with the ranking key of its victim, up to the first failure.
\* ---------------------------------------------------------------------
Drained ==
    run' = IF lastOp'.name = "evict"
           THEN LET cur == IF lastOp.name = "evict"
                           THEN run
                           ELSE [n |-> size_of(frame),
                                 pinned |-> Tracked(frame) \ Evictables(frame),
                                 rets |-> <<>>]
                    res == [ok |-> ret'.ok,
                            val |-> ret'.val,
                            key |-> IF ret'.ok
                                    THEN <<HistoryLength(frame, ret'.val),
                                           OldestRetained(frame, ret'.val)>>
                                    ELSE <<0, 0>>]
                IN  IF cur.rets # <<>> /\ ~cur.rets[Len(cur.rets)].ok
                    THEN cur
                    ELSE [cur EXCEPT !.rets = Append(@, res)]
           ELSE EmptyRun

DrainObserved == Drained /\ UNCHANGED <<log, gone, handed, pc>>

NextDrain ==
    \/ evict /\ DrainObserved
    \/ \E frame_id \in FrameIds, kind \in AccessType :
          /\ timestamp < MaxClock
          /\ record_access_typed(frame_id, kind)
          /\ DrainObserved
    \/ \E frame_id \in FrameIds :
          /\ timestamp < MaxClock
          /\ record_access(frame_id)
          /\ DrainObserved
    \/ \E frame_id \in FrameIds, evictable \in BOOLEAN :
          set_evictable(frame_id, evictable) /\ DrainObserved
    \/ \E frame_id \in FrameIds : remove(frame_id) /\ DrainObserved
    \/ size /\ DrainObserved

SpecDrain == Init /\ [][NextDrain]_vars

RankingKeyBefore(a, b) == a[1] < b[1] \/ (a[1] = b[1] /\ a[2] < b[2])

\* C17: from a state with size() = n, evict() calls with no other call in
\* between succeed exactly n times, return n distinct frame ids in
\* strictly increasing ranking-key order, reduce size() by one each time
\* down to 0, and the (n+1)-th fails; non-evictable frames stay tracked.
C17_RepeatedEvictDrains ==
    lastOp.name = "evict" =>
        LET j == Len(run.rets)
            oks == {i \in 1..j : run.rets[i].ok}
        IN  /\ 1 <= j
            /\ j <= run.n + 1
            /\ \A i \in 1..j : run.rets[i].ok <=> i <= run.n
            /\ \A a, b \in oks :
                  a < b =>
                    /\ run.rets[a].val # run.rets[b].val
                    /\ RankingKeyBefore(run.rets[a].key, run.rets[b].key)
            /\ Cardinality(Evictables(frame)) = run.n - Cardinality(oks)
            /\ size_of(frame) = run.n - Cardinality(oks)
            /\ j = run.n + 1 => ~ret.ok /\ Evictables(frame) = {}
            /\ run.pinned \subseteq Tracked(frame)
            /\ \A f \in run.pinned : frame[f] = prev.frame[f]

\* A run of evict() calls that started with size() = 2 and a
\* non-evictable frame has reached its third, failing call.
C17_Witness ==
    /\ lastOp.name = "evict"
    /\ run.n >= 2
    /\ Len(run.rets) = run.n + 1
    /\ run.pinned # {}

\* ---------------------------------------------------------------------
\* Dropped frames.  gone has an entry for every frame that was evicted or
\* removed and not recorded since; the entry says whether the frame had a
\* full history and a false evictable flag when it was dropped.
\* ---------------------------------------------------------------------
DroppedAs(node) == Len(node.history) = k /\ ~node.evictable

Dropped ==
    gone' =
        IF lastOp'.name = "evict" /\ ret'.ok
        THEN insert(gone, ret'.val, DroppedAs(frame[ret'.val]))
        ELSE IF lastOp'.name = "remove" /\ lastOp'.frame_id \in DOMAIN frame
        THEN insert(gone, lastOp'.frame_id,
                    DroppedAs(frame[lastOp'.frame_id]))
        ELSE IF lastOp'.name \in RecordOps
        THEN map_remove(gone, lastOp'.frame_id)
        ELSE gone

GoneObserved == Dropped /\ UNCHANGED <<log, run, handed, pc>>

NextGone ==
    \/ evict /\ GoneObserved
    \/ \E frame_id \in FrameIds, kind \in AccessType :
          /\ timestamp < MaxClock
          /\ record_access_typed(frame_id, kind)
          /\ GoneObserved
    \/ \E frame_id \in FrameIds :
          /\ timestamp < MaxClock
          /\ record_access(frame_id)
          /\ GoneObserved
    \/ \E frame_id \in FrameIds, evictable \in BOOLEAN :
          set_evictable(frame_id, evictable) /\ GoneObserved
    \/ \E frame_id \in FrameIds : remove(frame_id) /\ GoneObserved
    \/ size /\ GoneObserved

SpecGone == Init /\ [][NextGone]_vars

\* C19: a frame that was evicted or removed keeps no state: the next
\* recordAccess on its id creates a record whose history is the single new
\* clock value and whose evictable flag is true, whatever its history and
\* flag were when it was dropped.
C19_DroppedFrameStartsFresh ==
    /\ \A f \in DOMAIN gone : f \notin Tracked(frame)
    /\ (lastOp.name \in RecordOps /\ lastOp.frame_id \in DOMAIN prev.gone) =>
          /\ lastOp.frame_id \in Tracked(frame)
          /\ frame[lastOp.frame_id].history = <<timestamp>>
          /\ frame[lastOp.frame_id].evictable
          /\ frame[lastOp.frame_id].k = k

\* recordAccess(f) after f was removed with a full history of at least two
\* entries and a false evictable flag.
C19_Witness ==
    /\ lastOp.name \in RecordOps
    /\ lastOp.frame_id \in DOMAIN prev.gone
    /\ prev.gone[lastOp.frame_id]
    /\ k >= 2

\* ---------------------------------------------------------------------
\* Concurrent callers.  evict, record_access_of_type, set_evictable and
\* remove take &mut self, so no two calls on a replacer overlap: a call is
\* one step, and the calls of the callers interleave.  handed[c] holds the
\* frames evict() returned to caller c that no record_access has created
\* anew since.
\* ---------------------------------------------------------------------
HandedTo(c) ==
    handed' = IF ret'.ok
              THEN [handed EXCEPT ![c] = @ \cup {ret'.val}]
              ELSE handed

Reborn ==
    handed' = IF lastOp'.name \in RecordOps
              THEN [c \in Callers |-> handed[c] \ {lastOp'.frame_id}]
              ELSE handed

ConcEvict(c) == HandedTo(c) /\ UNCHANGED <<log, run, gone, pc>>

ConcObserved == Reborn /\ UNCHANGED <<log, run, gone, pc>>

\* Only the results of evict() are told apart by caller.
NextConc ==
    \/ \E c \in Callers : evict /\ ConcEvict(c)
    \/ \E frame_id \in FrameIds, kind \in AccessType :
          /\ timestamp < MaxClock
          /\ record_access_typed(frame_id, kind)
          /\ ConcObserved
    \/ \E frame_id \in FrameIds :
          /\ timestamp < MaxClock
          /\ record_access(frame_id)
          /\ ConcObserved
    \/ \E frame_id \in FrameIds, evictable \in BOOLEAN :
          set_evictable(frame_id, evictable) /\ ConcObserved
    \/ \E frame_id \in FrameIds : remove(frame_id) /\ ConcObserved
    \/ size /\ ConcObserved

SpecConc == Init /\ [][NextConc]_vars

\* C14: with every call atomic, two callers of evict() never receive the
\* same frame id for the same tracked incarnation of the frame, in any
\* interleaving of their calls: an id that evict() returned is returned
\* again only after a recordAccess created the frame anew.
C14_NoFrameEvictedTwice ==
    /\ \A c, d \in Callers : c # d => handed[c] \cap handed[d] = {}
    /\ \A c \in Callers : handed[c] \cap Tracked(frame) = {}
    /\ Evicted => \A c \in Callers : ret.val \notin prev.handed[c]

\* evict() handed caller 2 a frame while caller 1 holds a frame it was
\* handed and the replacer still has an evictable frame for the next call.
C14_Witness ==
    /\ Evicted
    /\ ret.val \in handed[2]
    /\ ret.val \notin prev.handed[2]
    /\ handed[1] # {}
    /\ Evictables(frame) # {}

\* ---------------------------------------------------------------------
\* test::lru_replacer_test.  TestScript is the calls of the test in order,
\* each with the result the test asserts (Unit where it asserts nothing);
\* pc is the position of the next call, 0 when no test runs.  Between two
\* calls of the test, size() and the calls on the frame id the test never
\* records may be made any number of times.
\* ---------------------------------------------------------------------
TestK == 3

TestSpare == 7

Rec(f) == [call |-> Call("record_access", f, FALSE), expect |-> Unit]

SetEv(f, b) == [call |-> Call("set_evictable", f, b), expect |-> Unit]

Size(n) == [call |-> Call("size", 0, FALSE), expect |-> Ok(n)]

Evict(f) == [call |-> Call("evict", 0, FALSE), expect |-> Ok(f)]

EvictErr == [call |-> Call("evict", 0, FALSE), expect |-> Err]

TestScript ==
    <<Rec(1), Rec(2), Rec(3), Rec(4), Rec(5), Rec(6),
      SetEv(1, TRUE), SetEv(2, TRUE), SetEv(3, TRUE), SetEv(4, TRUE),
      SetEv(5, TRUE), SetEv(6, FALSE), Size(5),
      Rec(1),
      Evict(2), Evict(3), Evict(4), Size(2),
      Rec(3), Rec(4), Rec(5), Rec(4),
      SetEv(3, TRUE), SetEv(4, TRUE), Size(4),
      Evict(3), Size(3),
      SetEv(6, TRUE), Size(4), Evict(6), Size(3),
      SetEv(1, FALSE), Size(2), Evict(5), Size(1),
      Rec(1), Rec(1), SetEv(1, TRUE), Size(2), Evict(4),
      Size(1), Evict(1), Size(0),
      EvictErr, Size(0)>>

InitTest ==
    /\ new(TestK)
    /\ Unobserved
    /\ pc = 1

TestCall(name) ==
    /\ pc \in 1..Len(TestScript)
    /\ TestScript[pc].call.name = name

Advance == pc' = pc + 1 /\ UNCHANGED <<log, run, gone, handed>>

NextTest ==
    \/ TestCall("evict") /\ evict /\ Advance
    \/ /\ TestCall("record_access")
       /\ record_access(TestScript[pc].call.frame_id)
       /\ Advance
    \/ /\ TestCall("set_evictable")
       /\ set_evictable(TestScript[pc].call.frame_id,
                        TestScript[pc].call.evictable)
       /\ Advance
    \/ TestCall("size") /\ size /\ Advance
    \/ size /\ UNCHANGED aux
    \/ \E evictable \in BOOLEAN :
          set_evictable(TestSpare, evictable) /\ UNCHANGED aux
    \/ remove(TestSpare) /\ UNCHANGED aux

SpecTest == InitTest /\ [][NextTest]_vars

\* C12: with k = 3 every assertion of the repository test holds: size() is
\* 5 after the first twelve calls; after recordAccess(1) three evict()
\* calls return 2, 3, 4 and size() is 2; after recordAccess of 3, 4, 5, 4
\* and setEvictable(3, true), setEvictable(4, true) size() is 4 and
\* evict() returns 3; after setEvictable(6, true) evict() returns 6; after
\* setEvictable(1, false) evict() returns 5; after recordAccess(1) twice
\* and setEvictable(1, true) evict() returns 4 and then 1, size() is 0 and
\* the next evict() fails.
C12_TestTraceHolds ==
    \A i \in 1..Len(TestScript) :
        (pc = i + 1 /\ lastOp = TestScript[i].call) =>
            ret = TestScript[i].expect

\* The test has made its last call: the failing evict() and the size()
\* after it, thirteen record_access calls in all.
C12_Witness ==
    /\ pc = Len(TestScript) + 1
    /\ lastOp.name = "size"
    /\ ret = Ok(0)
    /\ timestamp = 13
    /\ Tracked(frame) = {}

====
